---- MODULE Spec2Model ----
(***************************************************************************)
(* PasswordStrengthValidator (src/components/PassWordStrengthValidator.tsx) *)
(*                                                                         *)
(* A string is a sequence of UTF-16 code units (what String.length and a   *)
(* regular expression without the u flag operate on).                      *)
(*                                                                         *)
(* Spec     : the mounted component - text-change events, the sanitizer,   *)
(*            the [password] effect and the onStrengthChange callback.     *)
(* SpecEval : evaluatePassword as a function of (props, pwd).              *)
(***************************************************************************)
EXTENDS Integers, Sequences, FiniteSets, TLC

VARIABLES
    props,      \* the component's props (with defaults applied)
    password,   \* useState('') - the stored password
    strength,   \* useState<Strength>(...) - the displayed result
    mounted,    \* the first commit's effect has run
    evals,      \* number of evaluatePassword calls made by the effect
    calls,      \* number of onStrengthChange invocations
    firstCall,  \* <<argument>> of the first invocation, <<>> before it
    lastCall,   \* <<argument>> of the latest invocation, <<>> before it
    events,     \* number of text-change events delivered
    lastText,   \* candidate of the latest text-change event
    lastValid,  \* latest candidate of <= 25 code units, all in 0..127
    pwd,        \* SpecEval: the argument of evaluatePassword
    result      \* SpecEval: <<returned Strength>>, <<>> before the call

vars == <<props, password, strength, mounted, evals, calls, firstCall,
          lastCall, events, lastText, lastValid, pwd, result>>

----------------------------------------------------------------------------
\* Bounds of the model
MaxLen    == 3      \* generated passwords: every string over Alphabet up to this length
MaxTyped  == 2      \* generated text-change candidates: up to this length
MaxEvents == 3      \* text-change events per behaviour

\* Program constants
MaxPasswordLength == 25
DefaultMinLength  == 8
maxScore          == 7
StrongThreshold   == 6
MediumThreshold   == 4

----------------------------------------------------------------------------
\* Strings
Range(s) == {s[i] : i \in 1..Len(s)}

Repeat(c, n) == [i \in 1..n |-> c]

RECURSIVE Strings(_, _)
Strings(alphabet, n) ==
    IF n = 0 THEN {<<>>}
    ELSE LET shorter == Strings(alphabet, n - 1)
         IN  shorter \cup {Append(s, c) : s \in {t \in shorter : Len(t) = n - 1}, c \in alphabet}

\* 'a', 'A', '1', '!', LF
Alphabet == {97, 65, 49, 33, 10}

\* 'a', U+00F8
TypedAlphabet == {97, 248}

\* commonPatterns: '123456', 'password', 'qwerty', 'abc123', 'abcdefghijklmnopqrstuvwxyz', '123456789'
commonPatterns ==
    << <<49, 50, 51, 52, 53, 54>>,
       <<112, 97, 115, 115, 119, 111, 114, 100>>,
       <<113, 119, 101, 114, 116, 121>>,
       <<97, 98, 99, 49, 50, 51>>,
       [i \in 1..26 |-> 96 + i],
       [i \in 1..9 |-> 48 + i] >>

\* /^[\x00-\x7F]*$/.test(str)
isAsciiOnly(str) == \A i \in 1..Len(str) : str[i] >= 0 /\ str[i] <= 127

\* String.prototype.toLowerCase on the code units the sanitizer lets through
\* (0..127): 'A'..'Z' map to 'a'..'z', everything else is unchanged.
toLowerCase(str) ==
    [i \in 1..Len(str) |-> IF str[i] >= 65 /\ str[i] <= 90 THEN str[i] + 32 ELSE str[i]]

\* String.prototype.includes
includes(str, pattern) ==
    \E k \in 0..(Len(str) - Len(pattern)) :
        \A j \in 1..Len(pattern) : str[k + j] = pattern[j]

\* the characters of the class [!@#$%^&*(),.?":{}|<>]
SpecialCharClass ==
    {33, 64, 35, 36, 37, 94, 38, 42, 40, 41, 44, 46, 63, 34, 58, 123, 125, 124, 60, 62}

\* LineTerminator of ECMAScript: LF, CR, U+2028, U+2029 - what '.' does not match
LineTerminators == {10, 13, 8232, 8233}

----------------------------------------------------------------------------
\* The seven criteria
CriteriaNames ==
    <<"length", "uppercase", "lowercase", "numbers", "specialChars",
      "noRepeatedChars", "noCommonPatterns">>

\* pwd.length >= minLength
lengthCriterion(p) == Len(p) >= props.minLength

\* /[A-Z]/.test(pwd)
uppercaseCriterion(p) == \E i \in 1..Len(p) : p[i] >= 65 /\ p[i] <= 90

\* /[a-z]/.test(pwd)
lowercaseCriterion(p) == \E i \in 1..Len(p) : p[i] >= 97 /\ p[i] <= 122

\* /\d/.test(pwd)
numbersCriterion(p) == \E i \in 1..Len(p) : p[i] >= 48 /\ p[i] <= 57

\* /[!@#$%^&*(),.?":{}|<>]/.test(pwd)
specialCharsCriterion(p) == \E i \in 1..Len(p) : p[i] \in SpecialCharClass

noRepeatedCharsNoNegation(p) ==
    \E i \in 1..(Len(p) - 2) :
        p[i] \notin LineTerminators /\ p[i + 1] = p[i] /\ p[i + 2] = p[i]

\* !/(.)\1{2,}/.test(pwd): '.' matches any code unit but a line terminator
noRepeatedCharsCriterion(p) ==
    ~ \E i \in 1..(Len(p) - 2) :
        p[i] \notin LineTerminators /\ p[i + 1] = p[i] /\ p[i + 2] = p[i]

noCommonPatternsCaseSensitive(p) ==
    ~ \E n \in 1..Len(commonPatterns) : includes(p, commonPatterns[n])

\* !commonPatterns.some((pattern) => pwd.toLowerCase().includes(pattern))
noCommonPatternsCriterion(p) ==
    ~ \E n \in 1..Len(commonPatterns) : includes(toLowerCase(p), commonPatterns[n])

scoreOfRequired(criteria) ==
    Cardinality({n \in 1..7 :
        /\ criteria[CriteriaNames[n]]
        /\ \/ n = 1
           \/ n = 2 /\ props.requireUppercase
           \/ n = 3 /\ props.requireLowercase
           \/ n = 4 /\ props.requireNumbers
           \/ n = 5 /\ props.requireSpecialChars
           \/ n = 6 /\ props.preventRepeatedChars
           \/ n = 7 /\ props.preventCommonPatterns})

RECURSIVE countFrom(_, _)
countFrom(values, n) ==
    IF n > Len(values) THEN 0
    ELSE (IF values[n] THEN 1 ELSE 0) + countFrom(values, n + 1)

\* let score = 0; Object.values(criteria).forEach((value) => value && score++)
scoreOf(criteria) ==
    countFrom([n \in 1..Len(CriteriaNames) |-> criteria[CriteriaNames[n]]], 1)

levelOfStrict(score) ==
    IF score > StrongThreshold THEN "Strong"
    ELSE IF score > MediumThreshold THEN "Medium"
    ELSE "Weak"

\* let level = 'Weak'; if (score >= 6) level = 'Strong'; else if (score >= 4) level = 'Medium'
levelOf(score) ==
    IF score >= StrongThreshold THEN "Strong"
    ELSE IF score >= MediumThreshold THEN "Medium"
    ELSE "Weak"

\* `Minimum ${minLength} characters`
lengthMessage == "Minimum " \o ToString(props.minLength) \o " characters"

push(feedback, condition, message) ==
    IF condition THEN Append(feedback, message) ELSE feedback

feedbackUngated(criteria) ==
    LET f1 == push(<<>>, ~criteria.length, lengthMessage)
        f2 == push(f1, ~criteria.uppercase, "Add uppercase letters")
        f3 == push(f2, ~criteria.lowercase, "Add lowercase letters")
        f4 == push(f3, ~criteria.numbers, "Add numbers")
        f5 == push(f4, ~criteria.specialChars, "Add special characters")
        f6 == push(f5, ~criteria.noRepeatedChars, "Avoid repeated characters")
    IN  push(f6, ~criteria.noCommonPatterns, "Avoid common patterns")

\* const feedback = []; if (...) feedback.push(...), seven times
feedbackOf(criteria) ==
    LET f1 == push(<<>>, ~criteria.length, lengthMessage)
        f2 == push(f1, props.requireUppercase /\ ~criteria.uppercase, "Add uppercase letters")
        f3 == push(f2, props.requireLowercase /\ ~criteria.lowercase, "Add lowercase letters")
        f4 == push(f3, props.requireNumbers /\ ~criteria.numbers, "Add numbers")
        f5 == push(f4, props.requireSpecialChars /\ ~criteria.specialChars, "Add special characters")
        f6 == push(f5, props.preventRepeatedChars /\ ~criteria.noRepeatedChars, "Avoid repeated characters")
    IN  push(f6, props.preventCommonPatterns /\ ~criteria.noCommonPatterns, "Avoid common patterns")

\* evaluatePassword = (pwd: string): Strength => { ... }
evaluatePassword(p) ==
    LET criteria == [length           |-> lengthCriterion(p),
                     uppercase        |-> uppercaseCriterion(p),
                     lowercase        |-> lowercaseCriterion(p),
                     numbers          |-> numbersCriterion(p),
                     specialChars     |-> specialCharsCriterion(p),
                     noRepeatedChars  |-> noRepeatedCharsCriterion(p),
                     noCommonPatterns |-> noCommonPatternsCriterion(p)]
        score    == scoreOf(criteria)
    IN  [level    |-> levelOf(score),
         score    |-> score,
         maxScore |-> maxScore,
         criteria |-> criteria,
         feedback |-> feedbackOf(criteria)]

\* useState<Strength>({ level: 'Weak', score: 0, maxScore: 7, criteria: {all false}, feedback: [] })
InitialStrength ==
    [level    |-> "Weak",
     score    |-> 0,
     maxScore |-> maxScore,
     criteria |-> [length |-> FALSE, uppercase |-> FALSE, lowercase |-> FALSE,
                   numbers |-> FALSE, specialChars |-> FALSE,
                   noRepeatedChars |-> FALSE, noCommonPatterns |-> FALSE],
     feedback |-> <<>>]

----------------------------------------------------------------------------
\* Props

DefaultProps ==
    [minLength             |-> DefaultMinLength,
     requireUppercase      |-> TRUE,
     requireLowercase      |-> TRUE,
     requireNumbers        |-> TRUE,
     requireSpecialChars   |-> TRUE,
     preventRepeatedChars  |-> TRUE,
     preventCommonPatterns |-> TRUE,
     onStrengthChange      |-> FALSE]

\* every combination of the six flags, three values of minLength
AllProps ==
    [minLength             : {0, 3, DefaultMinLength},
     requireUppercase      : BOOLEAN,
     requireLowercase      : BOOLEAN,
     requireNumbers        : BOOLEAN,
     requireSpecialChars   : BOOLEAN,
     preventRepeatedChars  : BOOLEAN,
     preventCommonPatterns : BOOLEAN,
     onStrengthChange      : {FALSE}]

\* the props the component is mounted with: the defaults, with and without a
\* callback, and a configuration with every flag off
ComponentProps ==
    { DefaultProps,
      [DefaultProps EXCEPT !.onStrengthChange = TRUE],
      [minLength |-> 3, requireUppercase |-> FALSE, requireLowercase |-> FALSE,
       requireNumbers |-> FALSE, requireSpecialChars |-> FALSE,
       preventRepeatedChars |-> FALSE, preventCommonPatterns |-> FALSE,
       onStrengthChange |-> TRUE] }

----------------------------------------------------------------------------
\* Inputs

Password123 == <<112, 97, 115, 115, 119, 111, 114, 100, 49, 50, 51>>   \* 'password123'
StrongPass  == <<83, 116, 114, 111, 110, 103, 80, 97, 115, 115, 49, 50, 51, 33>>   \* 'StrongPass123!'
SuperStrong == <<83, 117, 112, 101, 114>> \o StrongPass \o <<64, 35>>   \* 'SuperStrongPass123!@#'
Emoji       == <<80, 64, 115, 115, 55357, 56960, 87, 248, 114, 100, 49, 50, 51>>   \* 'P@ss<U+1F680>W<U+00F8>rd123'

\* passwords the sanitizer lets through
FixedPasswords ==
    { <<112, 97, 115, 115>>,                                \* 'pass'
      <<80, 97, 115, 115, 49, 50, 51>>,                     \* 'Pass123'
      <<80, 97, 115, 115, 49, 50, 51, 33>>,                 \* 'Pass123!'
      <<80, 97, 115, 115, 49, 50, 51, 33, 64, 35>>,         \* 'Pass123!@#'
      StrongPass,
      SuperStrong,
      Password123,
      <<97, 97, 97, 65, 65, 65, 49, 49, 49, 33, 33>>,       \* 'aaaAAA111!!'
      <<97, 97, 65, 97, 97, 65>>,                           \* 'aaAaaA'
      <<77, 121, 32, 80, 97, 115, 115, 87, 111, 114, 100>>, \* 'My PassWord'
      <<81, 87, 69, 82, 84, 89>>,                           \* 'QWERTY'
      <<120, 120, 49, 50, 51, 52, 53, 54, 55>>,             \* 'xx1234567'
      <<65, 98, 99, 49, 50, 51, 33, 33>>,                   \* 'Abc123!!'
      <<109, 111, 99, 107, 101, 100>>,                      \* 'mocked'
      <<13, 13, 13>>,                                       \* CR CR CR
      <<97, 10, 10, 10, 66>>,                               \* 'a' LF LF LF 'B'
      <<33, 33, 33, 33>>,                                   \* '!!!!'
      <<127>>,                                              \* DEL
      [i \in 1..25 |-> 96 + i],                             \* 'abc...y'
      Repeat(97, MaxPasswordLength - 1),
      Repeat(97, MaxPasswordLength) }

\* candidates the sanitizer turns away
FixedRejected ==
    { Emoji,
      <<233>>,                                              \* U+00E9
      <<128>>,
      <<97, 98, 128>>,
      Append(Repeat(97, MaxPasswordLength - 1), 248),       \* 25 code units, the last U+00F8
      Repeat(97, MaxPasswordLength + 1),
      [i \in 1..26 |-> 96 + i] }                            \* 'abcdefghijklmnopqrstuvwxyz'

EvalInputs == Strings(Alphabet, MaxLen) \cup FixedPasswords

Candidates ==
    Strings(TypedAlphabet, MaxTyped)
        \cup { StrongPass, Password123, <<10, 10, 10>>, <<127>>,
               Repeat(97, MaxPasswordLength - 1), Repeat(97, MaxPasswordLength) }
        \cup FixedRejected

----------------------------------------------------------------------------
\* The component

handlePasswordChangeOffByOne(text) ==
    IF Len(text) >= MaxPasswordLength \/ ~isAsciiOnly(text) THEN password ELSE text

handlePasswordChangeClears(text) ==
    IF Len(text) > MaxPasswordLength \/ ~isAsciiOnly(text) THEN <<>> ELSE text

\* handlePasswordChange: the value of the password state after the handler
\*   if (text.length > 25 || !isAsciiOnly(text)) return;  setPassword(text);
handlePasswordChange(text) ==
    IF Len(text) > MaxPasswordLength \/ ~isAsciiOnly(text) THEN password ELSE text

depsChangedAlways(prev, next) == TRUE

\* useEffect(..., [password]): the effect re-runs when the dependency changed
depsChanged(prev, next) == prev # next

callbackArgStale(r) == strength

\* onStrengthChange?.(result)
callbackArg(r) == r

\* the body of the effect, run for the committed password p
\*   const result = evaluatePassword(password); setStrength(result); onStrengthChange?.(result);
RunEffect(p) ==
    LET r == evaluatePassword(p)
    IN  /\ strength' = r
        /\ evals' = evals + 1
        /\ IF props.onStrengthChange
           THEN /\ calls' = calls + 1
                /\ lastCall' = <<callbackArg(r)>>
                /\ firstCall' = IF calls = 0 THEN <<callbackArg(r)>> ELSE firstCall
           ELSE UNCHANGED <<calls, lastCall, firstCall>>

Init ==
    /\ props \in ComponentProps
    /\ password = <<>>
    /\ strength = InitialStrength
    /\ mounted = FALSE
    /\ evals = 0
    /\ calls = 0
    /\ firstCall = <<>>
    /\ lastCall = <<>>
    /\ events = 0
    /\ lastText = <<>>
    /\ lastValid = <<>>
    /\ pwd = <<>>
    /\ result = <<>>

\* the first commit: the effect runs with the initial password
Mount ==
    /\ ~mounted
    /\ mounted' = TRUE
    /\ RunEffect(password)
    /\ UNCHANGED <<props, password, events, lastText, lastValid, pwd, result>>

\* onChangeText(text): the handler, the re-render and the effect of that commit
ChangeText(text) ==
    /\ mounted
    /\ events < MaxEvents
    /\ events' = events + 1
    /\ lastText' = text
    /\ lastValid' = IF Len(text) <= 25 /\ Range(text) \subseteq 0..127 THEN text ELSE lastValid
    /\ password' = handlePasswordChange(text)
    /\ IF depsChanged(password, password')
       THEN RunEffect(password')
       ELSE UNCHANGED <<strength, evals, calls, firstCall, lastCall>>
    /\ UNCHANGED <<props, mounted, pwd, result>>

Next ==
    \/ Mount
    \/ \E text \in Candidates : ChangeText(text)

Spec == Init /\ [][Next]_vars

----------------------------------------------------------------------------
\* evaluatePassword as a function of (props, pwd)

InitEval ==
    /\ props \in AllProps
    /\ pwd \in EvalInputs
    /\ result = <<>>
    /\ password = <<>>
    /\ strength = InitialStrength
    /\ mounted = FALSE
    /\ evals = 0
    /\ calls = 0
    /\ firstCall = <<>>
    /\ lastCall = <<>>
    /\ events = 0
    /\ lastText = <<>>
    /\ lastValid = <<>>

Evaluate ==
    /\ result = <<>>
    /\ result' = <<evaluatePassword(pwd)>>
    /\ UNCHANGED <<props, password, strength, mounted, evals, calls, firstCall,
                   lastCall, events, lastText, lastValid, pwd>>

NextEval == Evaluate

SpecEval == InitEval /\ [][NextEval]_vars

----------------------------------------------------------------------------
\* Vocabulary of the properties

TheSevenCriteria ==
    {"length", "uppercase", "lowercase", "numbers", "specialChars",
     "noRepeatedChars", "noCommonPatterns"}

\* the messages in the fixed order, for a given minLength
Messages(minLength) ==
    <<"Minimum " \o ToString(minLength) \o " characters",
      "Add uppercase letters", "Add lowercase letters", "Add numbers",
      "Add special characters", "Avoid repeated characters", "Avoid common patterns">>

\* message n is due: criterion n failed and its flag is on (no flag for length)
Due(r, n) ==
    \/ n = 1 /\ ~r.criteria.length
    \/ n = 2 /\ ~r.criteria.uppercase        /\ props.requireUppercase
    \/ n = 3 /\ ~r.criteria.lowercase        /\ props.requireLowercase
    \/ n = 4 /\ ~r.criteria.numbers          /\ props.requireNumbers
    \/ n = 5 /\ ~r.criteria.specialChars     /\ props.requireSpecialChars
    \/ n = 6 /\ ~r.criteria.noRepeatedChars  /\ props.preventRepeatedChars
    \/ n = 7 /\ ~r.criteria.noCommonPatterns /\ props.preventCommonPatterns

PositionOf(m, msgs) == CHOOSE n \in 1..Len(msgs) : msgs[n] = m

\* some character occurs 3 or more times in a row
HasRunOfThree(s) == \E i \in 1..(Len(s) - 2) : s[i] = s[i + 1] /\ s[i + 1] = s[i + 2]

Lowered(c) == IF c \in 65..90 THEN c + 32 ELSE c

Blocklist ==
    { <<49, 50, 51, 52, 53, 54>>,                          \* 123456
      <<112, 97, 115, 115, 119, 111, 114, 100>>,           \* password
      <<113, 119, 101, 114, 116, 121>>,                    \* qwerty
      <<97, 98, 99, 49, 50, 51>>,                          \* abc123
      <<97, 98, 99, 100, 101, 102, 103, 104, 105, 106, 107, 108, 109, 110, 111,
        112, 113, 114, 115, 116, 117, 118, 119, 120, 121, 122>>,   \* a..z
      <<49, 50, 51, 52, 53, 54, 55, 56, 57>> }             \* 123456789

\* b occurs in s at some position, ignoring the case of s
OccursIgnoringCase(b, s) ==
    \E k \in 1..Len(s) :
        /\ k + Len(b) - 1 <= Len(s)
        /\ \A j \in 1..Len(b) : Lowered(s[k + j - 1]) = b[j]

\* accept(candidate): at most 25 characters, every code point in 0..127
SanitizerAccepts(text) == Len(text) <= 25 /\ \A i \in 1..Len(text) : text[i] \in 0..127

DefaultConfiguration ==
    /\ props.minLength = 8
    /\ props.requireUppercase /\ props.requireLowercase /\ props.requireNumbers
    /\ props.requireSpecialChars /\ props.preventRepeatedChars /\ props.preventCommonPatterns

TextChangeEvent == events' = events + 1

----------------------------------------------------------------------------
\* C1: for every password and every configuration the returned score is an
\* integer in 0..7 equal to the number of true entries among the seven
\* criteria, whatever flags are enabled, and maxScore is 7.
C1_ScoreCountsAllSeven ==
    result # <<>> =>
        LET r == result[1]
        IN  /\ DOMAIN r.criteria = TheSevenCriteria
            /\ r.score \in 0..7
            /\ r.score = Cardinality({k \in TheSevenCriteria : r.criteria[k]})
            /\ r.maxScore = 7

\* every flag is off and all seven criteria count
C1_Witness ==
    /\ result # <<>>
    /\ ~props.requireUppercase /\ ~props.requireLowercase /\ ~props.requireNumbers
    /\ ~props.requireSpecialChars /\ ~props.preventRepeatedChars /\ ~props.preventCommonPatterns
    /\ result[1].score = 7

\* C2: level is "Strong" iff score >= 6, "Medium" iff 4 <= score < 6, and
\* "Weak" otherwise, for every returned result and every configuration.
C2_LevelThresholds ==
    result # <<>> =>
        LET r == result[1]
        IN  /\ r.level \in {"Weak", "Medium", "Strong"}
            /\ r.level = "Strong" <=> r.score >= 6
            /\ r.level = "Medium" <=> (4 <= r.score /\ r.score < 6)
            /\ r.level = "Weak"   <=> r.score <= 3

\* a result on the Strong threshold under a non-default configuration
C2_Witness ==
    /\ result # <<>>
    /\ result[1].score = 6
    /\ result[1].level = "Strong"
    /\ ~DefaultConfiguration

\* C3: the feedback holds the message of a criterion exactly when the
\* criterion failed and its flag is enabled (length has no flag), each
\* message at most once, in the fixed order.
C3_FeedbackGatedAndOrdered ==
    result # <<>> =>
        LET r    == result[1]
            f    == r.feedback
            msgs == Messages(props.minLength)
        IN  /\ \A n \in 1..7 : (msgs[n] \in Range(f)) <=> Due(r, n)
            /\ Range(f) \subseteq Range(msgs)
            /\ \A i, j \in 1..Len(f) :
                   i < j => PositionOf(f[i], msgs) < PositionOf(f[j], msgs)

\* a failed criterion whose flag is off stays silent while others speak
C3_Witness ==
    /\ result # <<>>
    /\ ~props.requireUppercase /\ ~result[1].criteria.uppercase
    /\ props.requireNumbers /\ ~result[1].criteria.numbers
    /\ Len(result[1].feedback) >= 3

\* C7: noRepeatedChars is true iff the password has no run of the same
\* character 3 or more times in a row, for every character that can occur in
\* a password (case-sensitively); with preventRepeatedChars on, a failing
\* password's feedback contains "Avoid repeated characters".
C7_NoRunOfThree ==
    result # <<>> =>
        LET r == result[1]
        IN  /\ r.criteria.noRepeatedChars <=> ~HasRunOfThree(pwd)
            /\ (props.preventRepeatedChars /\ ~r.criteria.noRepeatedChars)
                   => "Avoid repeated characters" \in Range(r.feedback)

\* C8: noCommonPatterns is true iff the lowercased password contains none of
\* the six blocklist strings; when it is false and preventCommonPatterns is
\* on, the feedback contains "Avoid common patterns".
C8_NoCommonPatterns ==
    result # <<>> =>
        LET r == result[1]
        IN  /\ r.criteria.noCommonPatterns <=> ~ \E b \in Blocklist : OccursIgnoringCase(b, pwd)
            /\ (props.preventCommonPatterns /\ ~r.criteria.noCommonPatterns)
                   => "Avoid common patterns" \in Range(r.feedback)

\* 'password123' under the defaults
C8_Witness ==
    /\ result # <<>>
    /\ pwd = Password123
    /\ DefaultConfiguration
    /\ ~result[1].criteria.noCommonPatterns
    /\ "Avoid common patterns" \in Range(result[1].feedback)

----------------------------------------------------------------------------
\* C4: the stored password is the most recent candidate of at most 25
\* characters with only code points 0..127, or empty if there was none; so it
\* is at most 25 characters and ASCII-only in every reachable state.
C4_StoredIsLastValidCandidate ==
    /\ password = lastValid
    /\ Len(password) <= 25
    /\ \A i \in 1..Len(password) : password[i] \in 0..127

\* 25 characters were adopted, then 26 characters were turned away
C4_Witness ==
    /\ Len(password) = 25
    /\ Len(lastText) = 26
    /\ events >= 2

\* C5: with a callback supplied, it is invoked once per evaluation: first on
\* mount with the result for the empty password, and each time with the result
\* that is stored as the displayed strength.
C5_CallbackPerEvaluation ==
    props.onStrengthChange =>
        /\ calls = evals
        /\ ~mounted => calls = 0
        /\ mounted =>
               /\ calls >= 1
               /\ firstCall = <<evaluatePassword(<<>>)>>
               /\ lastCall = <<strength>>

\* the callback ran on mount and again for a later, different result
C5_Witness ==
    /\ props.onStrengthChange
    /\ calls >= 3
    /\ firstCall # lastCall

\* C6: under the defaults the empty password evaluates to all content
\* criteria false, noRepeatedChars and noCommonPatterns true, score 2, level
\* "Weak" - on mount and again whenever the password is cleared.
C6_EmptyPasswordIsWeak ==
    (DefaultConfiguration /\ mounted /\ password = <<>>) =>
        /\ strength.criteria =
               [length |-> FALSE, uppercase |-> FALSE, lowercase |-> FALSE,
                numbers |-> FALSE, specialChars |-> FALSE,
                noRepeatedChars |-> TRUE, noCommonPatterns |-> TRUE]
        /\ strength.score = 2
        /\ strength.level = "Weak"

\* a non-empty password was evaluated, then the empty string was accepted
C6_Witness ==
    /\ DefaultConfiguration
    /\ password = <<>>
    /\ lastText = <<>>
    /\ evals = 3
    /\ events = 2

\* C9, as stated: every text-change event whose candidate passes the
\* sanitizer triggers exactly one evaluation, whose result is published.
C9_EveryAcceptedEventEvaluates ==
    [][(TextChangeEvent /\ SanitizerAccepts(lastText')) =>
           /\ evals' = evals + 1
           /\ strength' = evaluatePassword(lastText')]_vars

\* C9, amended: an accepted candidate that differs from the stored password
\* triggers exactly one evaluation, one equal to it triggers none; either way
\* the displayed strength is the evaluation of the stored password when the
\* event is done.
C9_ChangedPasswordEvaluatesOnce ==
    [][(TextChangeEvent /\ SanitizerAccepts(lastText')) =>
           /\ password' = lastText'
           /\ strength' = evaluatePassword(lastText')
           /\ lastText' # password => evals' = evals + 1
           /\ lastText' = password => evals' = evals /\ strength' = strength]_vars

\* one accepted change, evaluated once and published
C9_Witness ==
    /\ events = 1
    /\ evals = 2
    /\ password = StrongPass
    /\ lastText = StrongPass
    /\ strength.level = "Strong"

\* C10: a text-change event whose candidate the sanitizer rejects changes
\* nothing: no evaluation, no callback, same password, same displayed result.
C10_RejectedEventIsNoOp ==
    [][(TextChangeEvent /\ ~SanitizerAccepts(lastText')) =>
           /\ password' = password
           /\ strength' = strength
           /\ evals' = evals
           /\ calls' = calls
           /\ lastCall' = lastCall]_vars

\* a candidate was rejected while a non-empty password was stored
C10_Witness ==
    /\ events >= 2
    /\ ~SanitizerAccepts(lastText)
    /\ password # <<>>
    /\ strength.level = "Strong"

====
